---- MODULE Spec2Model ----
(***************************************************************************)
(* Model of migratable-object: the MigratableHandlerImpl migration runner  *)
(* of src/migratable-object.ts, the Migratable / MigratableObject wrappers *)
(* that create it lazily inside migrate(), and the Durable Object that     *)
(* hosts them (src/unnamed/part_003).                                      *)
(*                                                                         *)
(* sql.exec is synchronous and migrate() contains no await, so one         *)
(* migrate() call runs to its return or throw without any other code of    *)
(* the object running in between: while pc # "idle" only the steps of the  *)
(* running call (and the passing of time) are enabled.                     *)
(***************************************************************************)
EXTENDS Integers, Sequences, FiniteSets, TLC

\* ------------------------------------------------------------------ bounds
MaxCalls == 2          \* migrate() calls explored
MaxActivations == 2    \* activations (constructions of the object) explored
MaxClock == 1          \* CURRENT_TIMESTAMP values 0..MaxClock (one-second ticks)

\* ------------------------------------------------------------- key strings
\* A configuration key is a JavaScript string, modelled as the sequence of
\* its characters.  The key alphabet has digits and letters, no sign, no dot.
DigitChars == <<"0", "1", "2", "3", "4", "5", "6", "7", "8", "9">>

IsDigit(c) == \E d \in 1..10 : DigitChars[d] = c

DigitVal(c) == (CHOOSE d \in 1..10 : DigitChars[d] = c) - 1

\* The value Number(key) gives for a key that is not a numeric literal.
NaN == -1

RECURSIVE DigitsValue(_)
DigitsValue(s) ==
    IF s = <<>> THEN 0
    ELSE DigitsValue(SubSeq(s, 1, Len(s) - 1)) * 10 + DigitVal(s[Len(s)])

\* Number(key): "" is 0, a run of decimal digits is its value (leading zeros
\* allowed), anything else over this alphabet is NaN.
NumberOf(s) ==
    IF \A i \in 1..Len(s) : IsDigit(s[i]) THEN DigitsValue(s) ELSE NaN

isNaN(x) == x = NaN

\* version.toString() of a non-negative integer: canonical decimal digits.
RECURSIVE toString(_)
toString(n) ==
    IF n < 10 THEN <<DigitChars[n + 1]>>
    ELSE toString(n \div 10) \o <<DigitChars[(n % 10) + 1]>>

\* ---------------------------------------------------------- configurations
\* options.migrations: Record<string, string[]>, as the sequence of its
\* entries in Object.keys order.  queries is the length of the batch; the
\* i-th statement of version v is identified by <<v, i>>.  Object.keys order
\* is insertion order for keys that are not array indices (versions of
\* 2^32 - 1 and above, such as timestamps), so any order can occur.
Entry(k, n) == [key |-> k, queries |-> n]

Cfg312 == <<Entry(<<"3">>, 1), Entry(<<"1">>, 1), Entry(<<"2">>, 3)>>
Cfg12 == <<Entry(<<"1">>, 1), Entry(<<"2">>, 1)>>
Cfg12a == <<Entry(<<"1">>, 1), Entry(<<"2">>, 3), Entry(<<"2", "a">>, 1)>>
Cfg01 == <<Entry(<<"0">>, 1), Entry(<<"1">>, 1)>>
CfgLead == <<Entry(<<"0", "1">>, 1)>>

Configs == {Cfg312, Cfg12, Cfg12a, Cfg01, CfgLead}

\* Messages of failing statements.
Messages == {"e1", "e2"}

\* migrations[key]: the batch length, or Undefined when the object has no
\* such property.
Undefined == -1

QueriesOf(cfg, k) ==
    IF \E i \in 1..Len(cfg) : cfg[i].key = k
    THEN cfg[CHOOSE i \in 1..Len(cfg) : cfg[i].key = k].queries
    ELSE Undefined

\* Every statement of every configuration, as <<version, index>>.
AllStatements ==
    UNION {UNION {{<<NumberOf(cfg[i].key), j>> : j \in 1..cfg[i].queries} :
                    i \in {n \in 1..Len(cfg) : ~isNaN(NumberOf(cfg[n].key))}} :
           cfg \in Configs}

\* ----------------------------------------------------------------- helpers
RECURSIVE Insert(_, _)
Insert(x, s) ==
    IF s = <<>> THEN <<x>>
    ELSE IF x < Head(s) THEN <<x>> \o s
    ELSE <<Head(s)>> \o Insert(x, Tail(s))

\* Array.prototype.sort((a, b) => a - b)
RECURSIVE SortAsc(_)
SortAsc(s) == IF s = <<>> THEN <<>> ELSE Insert(Head(s), SortAsc(Tail(s)))

MapNumber(cfg) == [i \in 1..Len(cfg) |-> NumberOf(cfg[i].key)]

NotNaN(x) == ~isNaN(x)

\* versionKeys without the sort: the keys in Object.keys order.
versionKeys_Unsorted(cfg) == SelectSeq(MapNumber(cfg), NotNaN)

\* Object.keys(migrations).map(Number).filter(!isNaN).sort((a, b) => a - b)
versionKeys(cfg) == SortAsc(SelectSeq(MapNumber(cfg), NotNaN))

\* this.currentVersion || 0
OrZero(x) == IF isNaN(x) \/ x = 0 THEN 0 ELSE x

\* The filter with >= in place of >: the current version counts as new.
NewVersionsOf_Geq(cfg, cur) ==
    LET Newer(v) == v >= OrZero(cur) IN SelectSeq(versionKeys(cfg), Newer)

\* versionKeys.filter(version => version > (this.currentVersion || 0))
NewVersionsOf(cfg, cur) ==
    LET Newer(v) == v > OrZero(cur) IN SelectSeq(versionKeys(cfg), Newer)

\* ------------------------------------------------------------------- state
VARIABLES
    ledger,          \* rows of _migrations: [version, errors, applied_at]
    tableExists,     \* the _migrations table has been created
    clock,           \* CURRENT_TIMESTAMP of the store
    effects,         \* <<v, i>> -> times statement i of version v took effect
    alive,           \* the object is activated
    sql,             \* this.sql is defined
    migrations,      \* options.migrations of the deployed class
    hasHandler,      \* this._migratableHandler is set
    currentVersion,  \* MigratableHandlerImpl.currentVersion
    pc,              \* "idle" | "call" | "running"
    newVersions,     \* versions of the for loop not yet completed
    qi,              \* index of the next statement of Head(newVersions)
    results,         \* results array of the running or last call
    outcome,         \* of the last call: "none" | "returned" | "threw"
    thrown,          \* error the last call rejected with
    startVersion,    \* currentVersion when the running or last call began
    calls,           \* migrate() calls made
    activations,     \* activations made
    served,          \* a request method ran in this activation
    boot,            \* how initializeMigrations of this activation's handler went
    configChanged    \* an activation used a configuration unlike its predecessor's

vars == <<ledger, tableExists, clock, effects, alive, sql, migrations,
          hasHandler, currentVersion, pc, newVersions, qi, results, outcome,
          thrown, startVersion, calls, activations, served, boot,
          configChanged>>

\* errors column: NULL, or JSON.stringify(versionErrors)
NULL == <<>>

NoError == [kind |-> "none", version |-> 0, msg |-> ""]

EmptyLedger == {}

\* INSERT without the PRIMARY KEY on version: only a missing table fails it.
InsertThrows_NoKey(k) == ~tableExists

\* INSERT INTO _migrations ...: fails when the table is missing or the
\* PRIMARY KEY already holds this version.
InsertThrows(k) == ~tableExists \/ \E r \in ledger : r.version = k

InsertError(v) ==
    [kind |-> IF ~tableExists THEN "nosuchtable" ELSE "constraint",
     version |-> v, msg |-> ""]

\* The row is added; applied_at defaults to CURRENT_TIMESTAMP.
InsertRow(k, errs) ==
    ledger \cup {[version |-> k, errors |-> errs, applied_at |-> clock]}

Init ==
    /\ ledger = EmptyLedger
    /\ tableExists = FALSE
    /\ clock = 0
    /\ effects = [s \in AllStatements |-> 0]
    /\ alive = FALSE
    /\ sql = FALSE
    /\ migrations = <<>>
    /\ hasHandler = FALSE
    /\ currentVersion = 0
    /\ pc = "idle"
    /\ newVersions = <<>>
    /\ qi = 1
    /\ results = <<>>
    /\ outcome = "none"
    /\ thrown = NoError
    /\ startVersion = 0
    /\ calls = 0
    /\ activations = 0
    /\ served = FALSE
    /\ boot = "none"
    /\ configChanged = FALSE

\* ----------------------------------------------------------------- actions
\* The runtime constructs the object: the class returned by Migratable, or a
\* subclass of MigratableObject.  Neither constructor creates the handler or
\* runs a migration.  The class may or may not define this.sql
\* (part_003 does, part_004 does not).
Activate(cfg, hasSql) ==
    /\ ~alive
    /\ activations < MaxActivations
    /\ alive' = TRUE
    /\ sql' = hasSql
    /\ migrations' = cfg
    /\ hasHandler' = FALSE
    /\ currentVersion' = 0
    /\ served' = FALSE
    /\ boot' = "none"
    /\ outcome' = "none"
    /\ thrown' = NoError
    /\ results' = <<>>
    /\ startVersion' = 0
    /\ activations' = activations + 1
    /\ configChanged' = (configChanged \/ (activations > 0 /\ cfg # migrations))
    /\ UNCHANGED <<ledger, tableExists, clock, effects, pc, newVersions, qi, calls>>

\* The runtime evicts the idle object: its memory (the handler and every
\* field) is lost, the store stays.
Evict ==
    /\ alive
    /\ pc = "idle"
    /\ alive' = FALSE
    /\ sql' = FALSE
    /\ hasHandler' = FALSE
    /\ currentVersion' = 0
    /\ served' = FALSE
    /\ boot' = "none"
    /\ outcome' = "none"
    /\ thrown' = NoError
    /\ results' = <<>>
    /\ startVersion' = 0
    /\ UNCHANGED <<ledger, tableExists, clock, effects, migrations, pc,
                   newVersions, qi, calls, activations, configChanged>>

\* One second passes on the store's clock.
Tick ==
    /\ clock < MaxClock
    /\ clock' = clock + 1
    /\ UNCHANGED <<ledger, tableExists, effects, alive, sql, migrations,
                   hasHandler, currentVersion, pc, newVersions, qi, results,
                   outcome, thrown, startVersion, calls, activations, served,
                   boot, configChanged>>

\* The SELECT without WHERE errors IS NULL: the latest row of any outcome.
LatestApplied_NoFilter ==
    {r.version : r \in {x \in ledger :
        \A j \in ledger : j.applied_at <= x.applied_at}}

\* SELECT version FROM _migrations WHERE errors IS NULL
\* ORDER BY applied_at DESC LIMIT 1: a row with errors NULL that no other
\* such row follows in applied_at; among rows with equal applied_at SQL
\* leaves the choice open.
LatestApplied ==
    {r.version : r \in {x \in ledger :
        /\ x.errors = NULL
        /\ \A j \in ledger : j.errors = NULL => j.applied_at <= x.applied_at}}

\* Construct without the try/catch of initializeMigrations: a failing exec
\* leaves the constructor, no handler is stored and migrate() rejects.
Construct_Fatal(b) ==
    /\ alive
    /\ ~hasHandler
    /\ pc = "idle"
    /\ calls < MaxCalls
    /\ IF ~sql THEN b = "skipped" ELSE b # "skipped"
    /\ tableExists' = (tableExists \/ (sql /\ b # "createFails"))
    /\ IF b \in {"createFails", "selectFails"}
       THEN /\ hasHandler' = FALSE
            /\ pc' = "idle"
            /\ outcome' = "threw"
            /\ currentVersion' = 0
       ELSE /\ hasHandler' = TRUE
            /\ pc' = "call"
            /\ outcome' = outcome
            /\ IF b = "ok" /\ LatestApplied # {}
               THEN \E k \in LatestApplied : currentVersion' = NumberOf(k)
               ELSE currentVersion' = 0
    /\ boot' = b
    /\ UNCHANGED <<ledger, clock, effects, alive, sql, migrations, newVersions,
                   qi, results, thrown, startVersion, calls, activations,
                   served, configChanged>>

\* First migrate() of an activation: the wrapper creates the handler, whose
\* constructor runs initializeMigrations when this.sql is defined.  b says
\* how the two exec calls of initializeMigrations go; a failure is caught and
\* logged and leaves currentVersion at its initial 0.
Construct(b) ==
    /\ alive
    /\ ~hasHandler
    /\ pc = "idle"
    /\ calls < MaxCalls
    /\ hasHandler' = TRUE
    /\ pc' = "call"
    /\ IF ~sql
       THEN /\ b = "skipped"
            /\ currentVersion' = 0
            /\ UNCHANGED tableExists
       ELSE /\ b # "skipped"
            /\ tableExists' = (tableExists \/ b # "createFails")
            /\ IF b = "ok" /\ LatestApplied # {}
               THEN \E k \in LatestApplied : currentVersion' = NumberOf(k)
               ELSE currentVersion' = 0
    /\ boot' = b
    /\ UNCHANGED <<ledger, clock, effects, alive, sql, migrations, newVersions,
                   qi, results, outcome, thrown, startVersion, calls,
                   activations, served, configChanged>>

\* MigrateBegin as it would be if the loop of migrate() yielded between
\* statements: a second call may begin while one is running.
MigrateBegin_Reentrant ==
    /\ alive
    /\ hasHandler
    /\ calls < MaxCalls
    /\ calls' = calls + 1
    /\ results' = <<>>
    /\ thrown' = NoError
    /\ startVersion' = currentVersion
    /\ qi' = 1
    /\ IF ~sql \/ NewVersionsOf(migrations, currentVersion) = <<>>
       THEN /\ pc' = "idle"
            /\ outcome' = "returned"
            /\ newVersions' = <<>>
       ELSE /\ pc' = "running"
            /\ outcome' = "none"
            /\ newVersions' = NewVersionsOf(migrations, currentVersion)
    /\ UNCHANGED <<ledger, tableExists, clock, effects, alive, sql, migrations,
                   hasHandler, currentVersion, activations, served, boot,
                   configChanged>>

\* handler.migrate() up to the for loop: without this.sql, or with nothing
\* newer than currentVersion, it returns the empty results array.
MigrateBegin ==
    /\ alive
    /\ hasHandler
    /\ pc \in {"idle", "call"}
    /\ calls < MaxCalls
    /\ calls' = calls + 1
    /\ results' = <<>>
    /\ thrown' = NoError
    /\ startVersion' = currentVersion
    /\ qi' = 1
    /\ IF ~sql \/ NewVersionsOf(migrations, currentVersion) = <<>>
       THEN /\ pc' = "idle"
            /\ outcome' = "returned"
            /\ newVersions' = <<>>
       ELSE /\ pc' = "running"
            /\ outcome' = "none"
            /\ newVersions' = NewVersionsOf(migrations, currentVersion)
    /\ UNCHANGED <<ledger, tableExists, clock, effects, alive, sql, migrations,
                   hasHandler, currentVersion, activations, served, boot, configChanged>>

\* The batch of the version the for loop is at.
CurVersion == Head(newVersions)
CurQueries == QueriesOf(migrations, toString(CurVersion))

Result(v, q, ok, m) == [version |-> v, query |-> q, success |-> ok, error |-> m]

\* for (const query of migrationQueries) over migrations[version.toString()]
\* that is undefined: a TypeError leaves migrate().
IterateUndefined ==
    /\ pc = "running"
    /\ CurQueries = Undefined
    /\ pc' = "idle"
    /\ outcome' = "threw"
    /\ thrown' = [kind |-> "type", version |-> CurVersion, msg |-> ""]
    /\ newVersions' = <<>>
    /\ qi' = 1
    /\ UNCHANGED <<ledger, tableExists, clock, effects, alive, sql, migrations,
                   hasHandler, currentVersion, results, startVersion, calls,
                   activations, served, boot, configChanged>>

\* ExecOk without results.push: the statement takes effect unreported.
ExecOk_NoPush ==
    /\ pc = "running"
    /\ CurQueries # Undefined
    /\ qi <= CurQueries
    /\ effects' = [effects EXCEPT ![<<CurVersion, qi>>] = @ + 1]
    /\ qi' = qi + 1
    /\ UNCHANGED <<ledger, tableExists, clock, alive, sql, migrations,
                   hasHandler, currentVersion, pc, newVersions, results, outcome,
                   thrown, startVersion, calls, activations, served, boot,
                   configChanged>>

\* this.sql.exec(query) succeeds: its effect is in the store and a result is
\* pushed.
ExecOk ==
    /\ pc = "running"
    /\ CurQueries # Undefined
    /\ qi <= CurQueries
    /\ results' = Append(results, Result(CurVersion, qi, TRUE, ""))
    /\ effects' = [effects EXCEPT ![<<CurVersion, qi>>] = @ + 1]
    /\ qi' = qi + 1
    /\ UNCHANGED <<ledger, tableExists, clock, alive, sql, migrations,
                   hasHandler, currentVersion, pc, newVersions, outcome, thrown,
                   startVersion, calls, activations, served, boot, configChanged>>

\* ExecFail without the throw: the failure is recorded and the loop goes on
\* with the next statement.
ExecFail_Continue(m) ==
    /\ pc = "running"
    /\ CurQueries # Undefined
    /\ qi <= CurQueries
    /\ results' = Append(results, Result(CurVersion, qi, FALSE, m))
    /\ qi' = qi + 1
    /\ UNCHANGED <<ledger, tableExists, clock, effects, alive, sql, migrations,
                   hasHandler, currentVersion, pc, newVersions, outcome, thrown,
                   startVersion, calls, activations, served, boot, configChanged>>

\* this.sql.exec(query) throws m: the catch block pushes the failed result,
\* inserts the ledger row of the failure and throws "Migration v failed: m".
\* When the INSERT itself throws, its error is what leaves migrate().
ExecFail(m) ==
    /\ pc = "running"
    /\ CurQueries # Undefined
    /\ qi <= CurQueries
    /\ results' = Append(results, Result(CurVersion, qi, FALSE, m))
    /\ IF InsertThrows(toString(CurVersion))
       THEN /\ thrown' = InsertError(CurVersion)
            /\ UNCHANGED ledger
       ELSE /\ ledger' = InsertRow(toString(CurVersion),
                                   <<[query |-> qi, msg |-> m]>>)
            /\ thrown' = [kind |-> "migration", version |-> CurVersion, msg |-> m]
    /\ pc' = "idle"
    /\ outcome' = "threw"
    /\ newVersions' = <<>>
    /\ qi' = 1
    /\ UNCHANGED <<tableExists, clock, effects, alive, sql, migrations,
                   hasHandler, currentVersion, startVersion, calls, activations,
                   served, boot, configChanged>>

\* RecordVersion reached one statement early: the row is written and the
\* loop moves on when the last statement of the batch has not run yet.
RecordVersion_Early ==
    /\ pc = "running"
    /\ CurQueries # Undefined
    /\ qi >= CurQueries
    /\ ~InsertThrows(toString(CurVersion))
    /\ ledger' = InsertRow(toString(CurVersion), NULL)
    /\ currentVersion' = CurVersion
    /\ newVersions' = Tail(newVersions)
    /\ qi' = 1
    /\ pc' = IF Tail(newVersions) = <<>> THEN "idle" ELSE "running"
    /\ outcome' = IF Tail(newVersions) = <<>> THEN "returned" ELSE outcome
    /\ UNCHANGED <<tableExists, clock, effects, alive, sql, migrations,
                   hasHandler, results, thrown, startVersion, calls,
                   activations, served, boot, configChanged>>

\* if (versionSuccess): insert the ledger row with errors NULL and advance
\* currentVersion; after the last version, return results.  When the INSERT
\* throws, its error leaves migrate() and currentVersion is not advanced.
\* The locals of a call that has ended are dropped.
RecordVersion ==
    /\ pc = "running"
    /\ CurQueries # Undefined
    /\ qi > CurQueries
    /\ IF InsertThrows(toString(CurVersion))
       THEN /\ thrown' = InsertError(CurVersion)
            /\ pc' = "idle"
            /\ outcome' = "threw"
            /\ newVersions' = <<>>
            /\ qi' = 1
            /\ UNCHANGED <<ledger, currentVersion>>
       ELSE /\ ledger' = InsertRow(toString(CurVersion), NULL)
            /\ currentVersion' = CurVersion
            /\ newVersions' = Tail(newVersions)
            /\ qi' = 1
            /\ pc' = IF Tail(newVersions) = <<>> THEN "idle" ELSE "running"
            /\ outcome' = IF Tail(newVersions) = <<>> THEN "returned" ELSE outcome
            /\ UNCHANGED thrown
    /\ UNCHANGED <<tableExists, clock, effects, alive, sql, migrations,
                   hasHandler, results, startVersion, calls, activations, served,
                   boot, configChanged>>

\* A request method of the class runs (addAndGetCount of part_003).  Nothing
\* in the wrappers makes it wait for, or call, migrate().
Request ==
    /\ alive
    /\ pc = "idle"
    /\ served' = TRUE
    /\ UNCHANGED <<ledger, tableExists, clock, effects, alive, sql, migrations,
                   hasHandler, currentVersion, pc, newVersions, qi, results,
                   outcome, thrown, startVersion, calls, activations,
                   boot, configChanged>>

Next ==
    \/ \E cfg \in Configs, hasSql \in BOOLEAN : Activate(cfg, hasSql)
    \/ Evict
    \/ Tick
    \/ \E b \in {"ok", "createFails", "selectFails", "skipped"} : Construct(b)
    \/ MigrateBegin
    \/ IterateUndefined
    \/ ExecOk
    \/ \E m \in Messages : ExecFail(m)
    \/ RecordVersion
    \/ Request

Spec == Init /\ [][Next]_vars


\* ------------------------------------------------------ claim vocabulary
\* Version v is applied: its ledger row exists and has errors NULL.
AppliedIn(l, v) == \E r \in l : r.version = toString(v) /\ r.errors = NULL

Applied(v) == AppliedIn(ledger, v)

\* Version v has a ledger row of a failed attempt.
FailedIn(l, v) == \E r \in l : r.version = toString(v) /\ r.errors # NULL

Failed(v) == FailedIn(ledger, v)

\* The versions of a configuration whose keys are numeric.
NumericVersions(cfg) ==
    {NumberOf(cfg[i].key) : i \in {j \in 1..Len(cfg) : NumberOf(cfg[j].key) # NaN}}

\* The configured versions above cur.
PendingAbove(cfg, cur) == {v \in NumericVersions(cfg) : v > cur}

\* The versions the running or last call has executed statements of.
ExecutedVersions == {results[i].version : i \in 1..Len(results)}

\* This step executes a statement (a result is pushed).
ExecStep == Len(results') = Len(results) + 1

\* This step is a failing statement execution.
FailStep == ExecStep /\ ~results'[Len(results')].success

\* This step is the if (versionSuccess) block after the last statement of a
\* batch.
RecordStep ==
    /\ pc = "running"
    /\ CurQueries # Undefined
    /\ qi > CurQueries
    /\ (pc' # pc \/ newVersions' # newVersions)

\* A migrate() call has ended and nothing ran since.
CallEnded == alive /\ hasHandler /\ pc = "idle" /\ outcome \in {"returned", "threw"}

\* ------------------------------------------------------------------ claims
\* C1: with an unchanged configuration and a bootstrap that did not fail, no
\* statement of a version whose ledger row has errors = NULL is executed
\* again, over any sequence of migrate() calls and new activations.
C1_NeverReapplied ==
    [][(ExecStep /\ ~configChanged /\ boot = "ok")
          => ~Applied(results'[Len(results')].version)]_vars

\* C2: a migrate() call made when no configured version is above the cached
\* current version, or made on the same runner directly after a migrate()
\* that returned successfully, returns the empty result sequence, executes
\* nothing and leaves the ledger and the store unchanged.
C2_Idempotence ==
    [][(/\ calls' = calls + 1
        /\ \/ PendingAbove(migrations, currentVersion) = {}
           \/ (pc = "idle" /\ outcome = "returned"))
          => /\ pc' = "idle"
             /\ outcome' = "returned"
             /\ results' = <<>>
             /\ ledger' = ledger
             /\ effects' = effects
             /\ tableExists' = tableExists
             /\ currentVersion' = currentVersion]_vars

\* C2 witness: on a store with applied versions a migrate() call returned
\* the empty sequence and moved nothing.
C2_Witness ==
    /\ CallEnded
    /\ sql
    /\ outcome = "returned"
    /\ results = <<>>
    /\ currentVersion = 2
    /\ startVersion = 2
    /\ Applied(1)
    /\ Applied(2)
    /\ calls >= 2

\* C3: when version v has a failed ledger row and a migrate() call has
\* executed every statement of v's batch successfully, the call does not
\* fail there and the ledger row of v has errors = NULL afterwards.
C3_RetryClearsError ==
    [][(RecordStep /\ Failed(CurVersion))
          => /\ outcome' # "threw"
             /\ AppliedIn(ledger', CurVersion)
             /\ ~FailedIn(ledger', CurVersion)]_vars

\* C4: a failing statement ends the call with a failure at once: no result
\* follows a failed one within a call, and the effects of the statements
\* that succeeded are kept.
C4_AbortOnFailure ==
    /\ [][FailStep => (pc' = "idle" /\ outcome' = "threw" /\ effects' = effects)]_vars
    /\ [][\A st \in AllStatements : effects'[st] >= effects[st]]_vars
    /\ [](\A i \in 1..(Len(results) - 1) : results[i].success)
    /\ []((Len(results) > 0 /\ ~results[Len(results)].success)
            => (pc = "idle" /\ outcome = "threw"))

\* C4 witness: version 2's batch is [Q_ok, Q_fail, Q_never_run] next to a
\* version 3; the call failed at Q_fail, Q_ok's effect is in the store, and
\* neither Q_never_run nor version 3 ran.
C4_Witness ==
    /\ migrations = Cfg312
    /\ CallEnded
    /\ outcome = "threw"
    /\ Len(results) = 3
    /\ results[2] = Result(2, 1, TRUE, "")
    /\ ~results[3].success
    /\ results[3].version = 2
    /\ results[3].query = 2
    /\ effects[<<2, 1>>] = 1
    /\ effects[<<2, 3>>] = 0
    /\ effects[<<3, 1>>] = 0

\* C5: every failing statement, also of a version that already has a failed
\* ledger row, first writes this attempt's failure to the version's ledger
\* row and then makes the call fail with an error naming the version and
\* the statement's message (bootstrap having succeeded).
C5_FailureRecorded ==
    [][(FailStep /\ boot = "ok")
          => LET r == results'[Len(results')] IN
             /\ \E x \in ledger' : x.version = toString(r.version)
             /\ \A x \in ledger' :
                   x.version = toString(r.version)
                      => x.errors = <<[query |-> r.query, msg |-> r.error]>>
             /\ thrown' = [kind |-> "migration", version |-> r.version,
                           msg |-> r.error]]_vars

\* C6: within one call the statements run in ascending version order and,
\* within a version, in array order; a statement of version w runs only
\* after every statement of every smaller pending version has succeeded in
\* this call.
C6_Ordering ==
    /\ \A i, j \in 1..Len(results) :
          i < j => \/ results[i].version < results[j].version
                   \/ /\ results[i].version = results[j].version
                      /\ results[i].query < results[j].query
    /\ \A i \in 1..Len(results) :
          \A w \in PendingAbove(migrations, startVersion) :
             w < results[i].version =>
                \A k \in 1..QueriesOf(migrations, toString(w)) :
                   \E j \in 1..(i - 1) : results[j] = Result(w, k, TRUE, "")

\* C6 witness: the configuration lists 3, 1, 2 and the call ran all five
\* statements.
C6_Witness ==
    /\ migrations = Cfg312
    /\ CallEnded
    /\ outcome = "returned"
    /\ Len(results) = 5
    /\ results[1].version = 1
    /\ results[5].version = 3

\* C7: a call executes statements only of configured versions above the
\* cached current version it started with and, when it has ended and no
\* statement failed, of all of them (this.sql being defined, the bootstrap
\* having succeeded, every version's batch being found).
C7_PendingSet ==
    /\ ExecutedVersions \subseteq PendingAbove(migrations, startVersion)
    /\ (/\ CallEnded
        /\ sql
        /\ boot = "ok"
        /\ thrown.kind # "type"
        /\ \A i \in 1..Len(results) : results[i].success)
          => ExecutedVersions = PendingAbove(migrations, startVersion)

\* C8: with a non-numeric key in the configuration of an object with a store
\* the runner is not constructed and no statement is executed.
C8_ConfigValidation ==
    (alive /\ sql /\ \E i \in 1..Len(migrations) : isNaN(NumberOf(migrations[i].key)))
       => (~hasHandler /\ results = <<>>)

\* C9: no request method of an object with a store runs while a configured
\* version is not applied.
C9_MigrationsBeforeRequests ==
    (alive /\ sql /\ served) => \A v \in NumericVersions(migrations) : Applied(v)

\* C10: after a migrate() call that returned successfully (this.sql being
\* defined, the bootstrap having succeeded), every configured version with
\* a numeric key, version 0 included, has a ledger row with errors = NULL.
C10_Completeness ==
    (CallEnded /\ outcome = "returned" /\ sql /\ boot = "ok")
       => \A v \in NumericVersions(migrations) : Applied(v)


\* The statements the running or last call has results for.
ResultStatements == {<<results[i].version, results[i].query>> : i \in 1..Len(results)}

\* C11: a migrate() call that returns holds exactly one result per statement
\* it executed, in execution order, each successful and of its batch's
\* version: the results are the statements of the versions that were above
\* the cursor, once each, in order, and in the first call ever made they are
\* the effects in the store.  On an empty store with {1: [S1], 2: [S2]} the
\* first call returns the results of versions 1 and 2, the second none.
C11_ResultSequence ==
    (CallEnded /\ outcome = "returned") =>
       LET P == IF sql THEN PendingAbove(migrations, startVersion) ELSE {}
           S == {st \in AllStatements :
                    st[1] \in P /\ st[2] <= QueriesOf(migrations, toString(st[1]))}
       IN /\ \A i \in 1..Len(results) :
                results[i].success /\ results[i].error = ""
          /\ ResultStatements = S
          /\ Len(results) = Cardinality(S)
          /\ \A i, j \in 1..Len(results) :
                i < j => \/ results[i].version < results[j].version
                         \/ /\ results[i].version = results[j].version
                            /\ results[i].query < results[j].query
          /\ calls = 1 =>
                \A st \in AllStatements :
                   effects[st] = IF st \in ResultStatements THEN 1 ELSE 0
          /\ (migrations = Cfg12 /\ sql /\ startVersion = 0) =>
                results = <<Result(1, 1, TRUE, ""), Result(2, 1, TRUE, "")>>
          /\ (migrations = Cfg12 /\ sql /\ startVersion = 2) => results = <<>>

\* C11 witness: the first call on the empty store with {1: [S1], 2: [S2]}
\* returned its two results.
C11_Witness ==
    /\ CallEnded
    /\ outcome = "returned"
    /\ migrations = Cfg12
    /\ calls = 1
    /\ Len(results) = 2
    /\ Applied(1)
    /\ Applied(2)


\* The highest version number with a ledger row of errors NULL, 0 without one.
MaxApplied ==
    LET A == {NumberOf(r.version) : r \in {x \in ledger : x.errors = NULL}} \cup {0}
    IN CHOOSE m \in A : \A a \in A : a <= m

\* This step constructs the runner.
ConstructStep == ~hasHandler /\ hasHandler'

\* C12: a runner constructed over an existing ledger (bootstrap succeeding)
\* has as cached current version the highest version whose ledger row has
\* errors = NULL, 0 when there is none, also when rows share an applied_at.
C12_CursorAtConstruction ==
    [][(ConstructStep /\ boot' = "ok") => currentVersion' = MaxApplied]_vars


SetMax(S) == CHOOSE m \in S : \A a \in S : a <= m

\* This step begins a migrate() call on a runner whose last call failed.
RetryStep == calls' = calls + 1 /\ pc = "idle" /\ outcome = "threw"

\* C13: when migrate() has failed at version v, the versions that succeeded
\* earlier in that call have ledger rows with errors = NULL and the cached
\* current version is the last of them (the cursor the call started with
\* when there is none); the next migrate() on the same runner starts its
\* loop at v with v's first statement, every statement it executes is the
\* next one of the version the ascending loop is at, and so none is of a
\* version below v.
C13_ResumeAfterFailure ==
    /\ []((CallEnded /\ outcome = "threw") =>
            LET S == {w \in ExecutedVersions : w < thrown.version}
            IN /\ \A w \in S : Applied(w)
               /\ currentVersion = IF S = {} THEN startVersion ELSE SetMax(S))
    /\ [][RetryStep => /\ pc' = "running"
                       /\ Head(newVersions') = thrown.version
                       /\ qi' = 1
                       /\ results' = <<>>]_vars
    /\ [][ExecStep => /\ results'[Len(results')].version = Head(newVersions)
                      /\ results'[Len(results')].query = qi]_vars
    /\ [](pc = "running" =>
            /\ \A i, j \in 1..Len(newVersions) :
                  i < j => newVersions[i] < newVersions[j]
            /\ \A i \in 1..Len(results) :
                  results[i].version <= Head(newVersions)
            /\ qi = 1 + Cardinality({i \in 1..Len(results) :
                                       results[i].version = Head(newVersions)}))

\* C13 witness: the first call applied version 1 and failed in version 2;
\* the second call on the same runner has run version 2's three statements
\* from the first one on.
C13_Witness ==
    /\ migrations = Cfg312
    /\ calls = 2
    /\ activations = 1
    /\ Applied(1)
    /\ Failed(2)
    /\ startVersion = 1
    /\ currentVersion = 1
    /\ results = <<Result(2, 1, TRUE, ""), Result(2, 2, TRUE, ""),
                   Result(2, 3, TRUE, "")>>


\* Every version number of every configuration.
AllVersions == {st[1] : st \in AllStatements}

\* C14: a ledger row with errors = NULL is written for v only by a call
\* whose latest results are the successes of every statement of v's batch
\* in array order, and together with setting the cached current version to
\* v; a running call changes the cached current version only to a version
\* whose row it writes in the same step; and with an unchanged
\* configuration every statement of an applied version has taken effect.
C14_AppliedMeansExecuted ==
    /\ [][\A v \in AllVersions :
            (AppliedIn(ledger', v) /\ ~AppliedIn(ledger, v)) =>
               LET n == QueriesOf(migrations, toString(v))
               IN /\ n # Undefined
                  /\ Len(results) >= n
                  /\ \A k \in 1..n :
                        results[Len(results) - n + k] = Result(v, k, TRUE, "")
                  /\ results' = results
                  /\ currentVersion' = v]_vars
    /\ [][(pc = "running" /\ currentVersion' # currentVersion) =>
            /\ AppliedIn(ledger', currentVersion')
            /\ ~AppliedIn(ledger, currentVersion')]_vars
    /\ [](~configChanged =>
            \A v \in AllVersions :
               Applied(v) =>
                  \A k \in 1..QueriesOf(migrations, toString(v)) :
                     effects[<<v, k>>] >= 1)

\* C14 witness: version 2 of three statements is applied, each statement
\* having taken effect once, and the cursor is at 2.
C14_Witness ==
    /\ migrations = Cfg312
    /\ pc = "running"
    /\ Applied(2)
    /\ currentVersion = 2
    /\ effects[<<2, 1>>] = 1
    /\ effects[<<2, 2>>] = 1
    /\ effects[<<2, 3>>] = 1
    /\ Len(results) = 4


\* C15: the ledger holds at most one row per version, after any sequence of
\* successful, failing and retried calls, and no step removes the row of a
\* version.
C15_LedgerUniqueness ==
    /\ [](\A r1, r2 \in ledger :
            NumberOf(r1.version) = NumberOf(r2.version) => r1 = r2)
    /\ [][\A r \in ledger : \E x \in ledger' : x.version = r.version]_vars

\* C15 witness: version 1 is applied, version 2 failed, and the retry of
\* version 2 has just run into its row.
C15_Witness ==
    /\ CallEnded
    /\ calls = 2
    /\ Applied(1)
    /\ Failed(2)
    /\ thrown = [kind |-> "constraint", version |-> 2, msg |-> ""]
    /\ Cardinality(ledger) = 2


BootFailed == boot \in {"createFails", "selectFails"}

\* C16: when creating the ledger table or reading the current version fails
\* during construction, construction completes with the cached current
\* version 0, and the migrate() that follows takes every configured version
\* above 0 as pending.
C16_BootstrapNotFatal ==
    /\ [][(ConstructStep /\ boot' \in {"createFails", "selectFails"})
            => (hasHandler' /\ pc' = "call" /\ currentVersion' = 0)]_vars
    /\ []((alive /\ sql /\ boot # "none") => hasHandler)
    /\ [][(calls' = calls + 1 /\ pc = "call" /\ BootFailed)
            => /\ {newVersions'[i] : i \in 1..Len(newVersions')}
                     = PendingAbove(migrations, 0)
               /\ PendingAbove(migrations, 0) # {} => pc' = "running"]_vars

\* C16 witness: version 1 is applied, the read of the current version
\* failed in a new activation, and migrate() is running version 1 again.
C16_Witness ==
    /\ boot = "selectFails"
    /\ Applied(1)
    /\ currentVersion = 0
    /\ pc = "running"
    /\ Head(newVersions) = 1


\* The positive versions of the configuration.
PositiveVersions == {v \in NumericVersions(migrations) : v > 0}

\* C17: with a configuration that has not changed since the empty ledger,
\* the applied positive versions are downward closed within the
\* configuration, and a version with a failed ledger row is the smallest
\* configured positive version that is not applied, so at most one version
\* has a failed row.
C17_NoGaps ==
    ~configChanged =>
       /\ \A v \in PositiveVersions :
             Applied(v) => \A w \in PositiveVersions : w < v => Applied(w)
       /\ \A v \in AllVersions :
             Failed(v) => /\ v \in PositiveVersions
                          /\ ~Applied(v)
                          /\ \A w \in PositiveVersions : w < v => Applied(w)
       /\ Cardinality({v \in AllVersions : Failed(v)}) <= 1

\* C17 witness: of 3, 1, 2 version 1 is applied, version 2 has failed and
\* version 3 has no row, after a retry.
C17_Witness ==
    /\ ~configChanged
    /\ migrations = Cfg312
    /\ Applied(1)
    /\ Failed(2)
    /\ ~Applied(3)
    /\ ~Failed(3)
    /\ calls = 2
    /\ pc = "idle"


\* C18: while one runner lives its cached current version never decreases,
\* and in every state it is 0 or a version whose ledger row has
\* errors = NULL.
C18_CursorSoundness ==
    /\ [][(hasHandler /\ hasHandler') => currentVersion' >= currentVersion]_vars
    /\ [](currentVersion = 0 \/ Applied(currentVersion))

\* C18 witness: a runner of a second activation loaded the cursor 1 from a
\* ledger that also holds the failed row of version 2, and has advanced
\* nowhere while running version 2 again.
C18_Witness ==
    /\ activations = 2
    /\ hasHandler
    /\ boot = "ok"
    /\ currentVersion = 1
    /\ Applied(1)
    /\ Failed(2)
    /\ pc = "running"
    /\ Len(results) = 1


====
